---- MODULE Spec2Model ----
(***************************************************************************)
(* Model of the viewport driver of mashlife_gui (src/src/app.rs):          *)
(* MashlifeGui::update and GridView.  One frame of the GUI is the          *)
(* sequence time_step, step-count buttons, drag, zoom, click, paint,       *)
(* update_life, render_life.                                               *)
(*                                                                         *)
(* f32 values are modelled as exact rationals extended with +inf, -inf and *)
(* NaN (IEEE results of dividing by zero); rounding to 24 bits is not      *)
(* modelled.  64-bit integers are modelled as hi * 2^61 + lo with a small  *)
(* lo, so that the origin bias 2^(MAX_N-1) and the saturating float casts  *)
(* keep their width.                                                       *)
(***************************************************************************)
EXTENDS Integers, Naturals, Sequences, FiniteSets, TLC

(***************************************************************************)
(* Bounds of the model                                                     *)
(***************************************************************************)
MaxFrames == 2
MaxInputs == 3
MaxDepth == 2
MaxCenter == 64
MaxTimeStep == 2
MaxOps == 4
LifeWin == 3

(***************************************************************************)
(* Program constants                                                       *)
(***************************************************************************)
MAX_N == 62
InitScale == 20
InitTimeStep == 1

(***************************************************************************)
(* f32 arithmetic: rationals n/d in lowest terms, d > 0, plus specials     *)
(***************************************************************************)
Abs(i) == IF i < 0 THEN -i ELSE i

Sign(i) == IF i < 0 THEN -1 ELSE IF i = 0 THEN 0 ELSE 1

RECURSIVE Gcd(_, _)
\* greatest common divisor of a > 0 and b >= 0
Gcd(a, b) == IF b = 0 THEN a ELSE Gcd(b, a % b)

\* the rational n/d, d # 0, in lowest terms with a positive denominator
Fin(n, d) ==
    LET n1 == IF d < 0 THEN -n ELSE n
        d1 == IF d < 0 THEN -d ELSE d
        g  == Gcd(d1, n1 % d1)
    IN  [k |-> "fin", n |-> n1 \div g, d |-> d1 \div g]

Whole(i) == [k |-> "fin", n |-> i, d |-> 1]

PInf == [k |-> "pinf", n |-> 0, d |-> 1]
NInf == [k |-> "ninf", n |-> 0, d |-> 1]
NaN  == [k |-> "nan", n |-> 0, d |-> 1]

IsFin(a) == a.k = "fin"

\* sign of a non-NaN value
FSign(a) == IF a.k = "pinf" THEN 1 ELSE IF a.k = "ninf" THEN -1 ELSE Sign(a.n)

InfOf(s) == IF s > 0 THEN PInf ELSE NInf

FNeg(a) ==
    CASE a.k = "fin"  -> [k |-> "fin", n |-> -a.n, d |-> a.d]
      [] a.k = "pinf" -> NInf
      [] a.k = "ninf" -> PInf
      [] OTHER        -> NaN

FAdd(a, b) ==
    CASE a.k = "nan" \/ b.k = "nan" -> NaN
      [] IsFin(a) /\ IsFin(b)       -> Fin(a.n * b.d + b.n * a.d, a.d * b.d)
      [] IsFin(a)                   -> b
      [] IsFin(b)                   -> a
      [] a.k = b.k                  -> a
      [] OTHER                      -> NaN

FSub(a, b) == FAdd(a, FNeg(b))

FMul(a, b) ==
    CASE a.k = "nan" \/ b.k = "nan" -> NaN
      [] IsFin(a) /\ IsFin(b)       -> Fin(a.n * b.n, a.d * b.d)
      [] FSign(a) = 0 \/ FSign(b) = 0 -> NaN
      [] OTHER                      -> InfOf(FSign(a) * FSign(b))

FDiv(a, b) ==
    CASE a.k = "nan" \/ b.k = "nan" -> NaN
      [] IsFin(a) /\ IsFin(b) ->
            IF b.n # 0 THEN Fin(a.n * b.d, a.d * b.n)
            ELSE IF a.n = 0 THEN NaN ELSE InfOf(Sign(a.n))
      [] IsFin(b) -> InfOf(FSign(a) * (IF FSign(b) < 0 THEN -1 ELSE 1))
      [] IsFin(a) -> Whole(0)
      [] OTHER    -> NaN

\* a <= b as IEEE compares: false when either side is NaN
FLe(a, b) ==
    CASE a.k = "nan" \/ b.k = "nan" -> FALSE
      [] a.k = "ninf" \/ b.k = "pinf" -> TRUE
      [] a.k = "pinf" \/ b.k = "ninf" -> FALSE
      [] OTHER -> a.n * b.d <= b.n * a.d

FLt(a, b) == FLe(a, b) /\ a # b

\* f32::floor, f32::ceil, f32::round (half away from zero); specials pass through
FFloor(a) == IF IsFin(a) THEN Whole(a.n \div a.d) ELSE a

FCeil(a) == IF IsFin(a) THEN Whole(-((-a.n) \div a.d)) ELSE a

FRound(a) ==
    IF ~IsFin(a) THEN a
    ELSE IF a.n >= 0 THEN Whole((2 * a.n + a.d) \div (2 * a.d))
         ELSE Whole(-((2 * (-a.n) + a.d) \div (2 * a.d)))

(***************************************************************************)
(* egui::Pos2 / Vec2 / Rect                                                *)
(***************************************************************************)
Vec(x, y) == [x |-> x, y |-> y]

VAdd(a, b) == Vec(FAdd(a.x, b.x), FAdd(a.y, b.y))

VSub(a, b) == Vec(FSub(a.x, b.x), FSub(a.y, b.y))

\* vector times scalar, vector divided by scalar
VScale(a, f) == Vec(FMul(a.x, f), FMul(a.y, f))

VDiv(a, f) == Vec(FDiv(a.x, f), FDiv(a.y, f))

Half == Fin(1, 2)

\* Rect::from_center_size
FromCenterSize(c, size) ==
    [min |-> VSub(c, VScale(size, Half)), max |-> VAdd(c, VScale(size, Half))]

\* Rect::intersects
Intersects(a, b) ==
    /\ FLe(a.min.x, b.max.x) /\ FLe(b.min.x, a.max.x)
    /\ FLe(a.min.y, b.max.y) /\ FLe(b.min.y, a.max.y)

(***************************************************************************)
(* 64-bit signed integers as hi * 2^(MAX_N-1) + lo, |lo| small             *)
(***************************************************************************)
Wide(hi, lo) == [hi |-> hi, lo |-> lo]

I64_MAX == Wide(4, -1)
I64_MIN == Wide(-4, 0)

\* f32 as i64: saturating, NaN to 0
AsI64(a) ==
    CASE a.k = "fin"  -> Wide(0, a.n \div a.d)
      [] a.k = "pinf" -> I64_MAX
      [] a.k = "ninf" -> I64_MIN
      [] OTHER        -> Wide(0, 0)

\* w lies in the i64 range [-2^63, 2^63)
InI64(w) ==
    \/ w.hi \in -3..3
    \/ w.hi = 4 /\ w.lo < 0
    \/ w.hi = -4 /\ w.lo >= 0

\* two's complement wrap of a sum of two i64 values
Wrap64(w) ==
    IF InI64(w) THEN w
    ELSE IF w.hi > 0 THEN Wide(w.hi - 8, w.lo) ELSE Wide(w.hi + 8, w.lo)

\* hi * 2^61 + mid * 2^32 + lo with lo in [-2^31, 2^31): a coordinate whose
\* offset from a multiple of 2^61 does not fit 32 bits
Wide3(hi, mid, lo) == [hi |-> hi, mid |-> mid, lo |-> lo]

\* 1 << MAX_N - 1, the origin bias
Bias == Wide(1, 0)

WAdd(a, b) == Wide(a.hi + b.hi, a.lo + b.lo)

WLe(a, b) == a.hi < b.hi \/ (a.hi = b.hi /\ a.lo <= b.lo)

\* w lies in the oracle's universe [0, 2^MAX_N)
InUniverse(w) ==
    \/ w.hi = 0 /\ w.lo >= 0
    \/ w.hi = 1
    \/ w.hi = 2 /\ w.lo < 0

(***************************************************************************)
(* GridView: pure functions of the view state                              *)
(***************************************************************************)
USIZE_MAX == 2147483647

RECURSIVE FloorLog2(_, _)
\* floor(log2(n/d)) for n, d > 0
FloorLog2(n, d) ==
    IF n < d THEN FloorLog2(2 * n, d) - 1
    ELSE IF n >= 2 * d THEN FloorLog2(n, 2 * d) + 1
    ELSE 0

F32_MAX_EXP == 128

\* min_n taking the logarithm of the scale itself, not of its reciprocal
MinNDirect(n, d, e) ==
    LET l == FloorLog2(n, d) + e
    IN  IF l >= F32_MAX_EXP THEN USIZE_MAX ELSE IF l < 0 THEN 0 ELSE l

\* (1. / s).log2() as usize for the f32 s = (n/d) * 2^e, n, d > 0:
\* 1/s overflows to +inf from 2^128 on, the cast saturates at both ends
MinNScaled(n, d, e) ==
    LET l == FloorLog2(d, n) - e
    IN  IF l >= F32_MAX_EXP THEN USIZE_MAX ELSE IF l < 0 THEN 0 ELSE l

\* GridView::min_n
min_n(scale) ==
    CASE scale.k = "fin" /\ scale.n > 0 -> MinNScaled(scale.n, scale.d, 0)
      [] scale.k = "fin" /\ scale.n = 0 -> USIZE_MAX
      [] OTHER -> 0

\* GridView::calc_cursor_grid
calc_cursor_grid(scale, cursor_px, view_size_px) ==
    LET view_center_px == VScale(view_size_px, Half)
        cursor_off_px  == VSub(cursor_px, view_center_px)
    IN  VDiv(cursor_off_px, scale)

\* GridView::viewbox_grid
viewbox_grid(center, scale, view_size_px) ==
    FromCenterSize(center, VDiv(view_size_px, scale))

\* 1 << n evaluated in i32: ok is FALSE for the overflow panic of a build
\* with overflow checks, the other builds mask the shift amount to 5 bits
ShlI32(n, checks) ==
    LET m == IF n >= 32 THEN n % 32 ELSE n
    IN  IF n >= 32 /\ checks THEN [ok |-> FALSE]
        ELSE IF m = 31
             THEN [ok |-> TRUE, v |-> [k |-> "fin", n |-> -2147483647 - 1, d |-> 1]]
             ELSE [ok |-> TRUE, v |-> Whole(2 ^ m)]

\* a click taking the floor of the cursor's grid position on each axis
ClickCoordFloor(center, scale, cursor_px, view_size_px) ==
    LET cursor_off_grid == calc_cursor_grid(scale, cursor_px, view_size_px)
        cursor_pos_grid == VAdd(center, cursor_off_grid)
    IN  <<AsI64(FFloor(cursor_pos_grid.x)), AsI64(FFloor(cursor_pos_grid.y))>>

\* the coordinate a click enqueues (GridView::modify)
ClickCoord(center, scale, cursor_px, view_size_px) ==
    LET cursor_off_grid == calc_cursor_grid(scale, cursor_px, view_size_px)
        cursor_pos_grid == VAdd(center, cursor_off_grid)
    IN  <<AsI64(FRound(cursor_pos_grid.x)), AsI64(FRound(cursor_pos_grid.y))>>

\* the view state after GridView::zoom
ZoomScale(scale, delta) == FAdd(scale, FMul(delta, scale))

\* zoom taking the cursor offset with the scale as it was before the update
ZoomCenterPre(center, scale, delta, cursor_px, view_size_px) ==
    VAdd(center, VScale(calc_cursor_grid(scale, cursor_px, view_size_px), delta))

ZoomCenter(center, scale, delta, cursor_px, view_size_px) ==
    VAdd(center,
         VScale(calc_cursor_grid(ZoomScale(scale, delta), cursor_px, view_size_px),
                delta))

\* a drag that moves the centre with the pointer instead of against it
DragCenterAdd(center, scale, delta) == VAdd(center, VDiv(delta, scale))

\* the view state after GridView::drag
DragCenter(center, scale, delta) == VSub(center, VDiv(delta, scale))

\* the screen rectangle of one visible-set entry, or nothing when culled
\* (the closure of GridView::view_rects)
ViewRect(center, scale, view_size_px, cell_scale_grid, xy) ==
    LET view_center_px == VScale(view_size_px, Half)
        view_rect_grid == viewbox_grid(center, scale, view_size_px)
        tile_size_grid == Vec(cell_scale_grid, cell_scale_grid)
        cell_scale_grid_px == FMul(cell_scale_grid, scale)
        tile_size_px   == Vec(cell_scale_grid_px, cell_scale_grid_px)
        pos_grid       == Vec(Whole(xy[1]), Whole(xy[2]))
        rect           == FromCenterSize(pos_grid, tile_size_grid)
    IN  IF Intersects(view_rect_grid, rect)
        THEN [some |-> TRUE, xy |-> xy,
              rect |-> FromCenterSize(VAdd(VScale(VSub(pos_grid, center), scale),
                                           view_center_px),
                                      tile_size_px)]
        ELSE [some |-> FALSE, xy |-> xy]

(***************************************************************************)
(* The simulation oracle (mashlife::HashLife), from its contract.  A       *)
(* handle is the set of live cells, as offsets from the origin bias, and   *)
(* the depth of its quadtree root.                                         *)
(***************************************************************************)
Handle(cells, n) == [cells |-> cells, n |-> n]

\* a coordinate of the modelled part of the universe: bias plus a small offset
Near(coord) == coord[1].hi = 1 /\ coord[2].hi = 1

Rel(coord) == <<coord[1].lo, coord[2].lo>>

\* HashLife::read
read(node, coord) == Near(coord) /\ Rel(coord) \in node.cells

\* HashLife::modify
modify(node, coord, value, n) ==
    IF ~Near(coord) THEN node
    ELSE IF value THEN Handle(node.cells \cup {Rel(coord)}, node.n)
         ELSE Handle(node.cells \ {Rel(coord)}, node.n)

Neighbours(c) ==
    {<<c[1] + dx, c[2] + dy>> : dx \in -1..1, dy \in -1..1} \ {c}

LifeCells == (-LifeWin..LifeWin) \X (-LifeWin..LifeWin)

\* one generation of B3/S23; nothing is born outside the modelled window
Generation(cells) ==
    {c \in (cells \cup UNION {Neighbours(d) : d \in cells}) \cap LifeCells :
        LET k == Cardinality(Neighbours(c) \cap cells)
        IN  k = 3 \/ (k = 2 /\ c \in cells)}

RECURSIVE Generations(_, _)
Generations(cells, steps) ==
    IF steps = 0 THEN cells ELSE Generations(Generation(cells), steps - 1)

\* HashLife::result: the centre of the root, advanced, one level down
result(node, steps) == Handle(Generations(node.cells, steps), node.n - 1)

\* HashLife::expand
expand(node) == Handle(node.cells, node.n + 1)

\* HashLife::resolve: the corners of the populated macrocells of side
\* 2^depth that meet rect; beyond the root's depth the root is the macrocell
resolve(depth, rect, node) ==
    IF depth >= MAX_N
    THEN IF node.cells # {} /\ WLe(rect[1][1], Wide(2, -1)) /\ WLe(Wide(0, 0), rect[2][1])
            /\ WLe(rect[1][2], Wide(2, -1)) /\ WLe(Wide(0, 0), rect[2][2])
         THEN {<<Wide(0, 0), Wide(0, 0)>>}
         ELSE {}
    ELSE LET side == 2 ^ depth
             corners == {<<c[1] - (c[1] % side), c[2] - (c[2] % side)>> : c \in node.cells}
         IN  {<<Wide(1, c[1]), Wide(1, c[2])>> : c \in
                {c \in corners :
                    /\ WLe(rect[1][1], Wide(1, c[1] + side - 1))
                    /\ WLe(Wide(1, c[1]), rect[2][1])
                    /\ WLe(rect[1][2], Wide(1, c[2] + side - 1))
                    /\ WLe(Wide(1, c[2]), rect[2][2])}}

\* time_step keeping the handle that result returns, without expanding it
AdvanceUnexpanded(node, steps) == result(node, steps)

\* MashlifeGui::time_step: result, then expand
Advance(node, steps) == expand(result(node, steps))

\* an i64 cast to i32 that saturates at the ends of the i32 range
AsI32Saturating(w) ==
    IF w.hi > 1 \/ (w.hi = 1 /\ w.mid > 0) THEN 2147483647
    ELSE IF w.hi < 1 \/ (w.hi = 1 /\ w.mid < 0) THEN -2147483647 - 1
    ELSE w.lo

\* i64 as i32 (x as _): the low 32 bits as a signed value. The multiples of
\* 2^61 and of 2^32 in hi * 2^61 + mid * 2^32 + lo fall away, lo is in
\* [-2^31, 2^31)
AsI32(w) == w.lo

\* the set_grid closure of GridView::render_life: what insert receives
Stored(c) == <<AsI32(c[1]), AsI32(c[2])>>

RECURSIVE SeqOf(_)
\* the elements of a HashSet in the order its iterator yields them
SeqOf(S) ==
    IF S = {} THEN <<>>
    ELSE LET x == CHOOSE x \in S : TRUE IN <<x>> \o SeqOf(S \ {x})

\* a + b in i64: ok is FALSE for the overflow panic
I64Add(a, b, checks) ==
    LET sum == WAdd(a, b)
    IN  IF InI64(sum) THEN [ok |-> TRUE, v |-> sum]
        ELSE IF checks THEN [ok |-> FALSE]
        ELSE [ok |-> TRUE, v |-> Wrap64(sum)]

\* the value written by one committed edit (GridView::update_life)
EditValue(node, coord) == ~read(node, coord)

RECURSIVE UpdateLifeLost(_, _, _, _)
\* update_life with every modify applied to the handle it started from, so
\* that only the last edit of a batch survives
UpdateLifeLost(q, node, calls, checks) ==
    IF q = <<>> THEN [ok |-> TRUE, node |-> node, calls |-> calls]
    ELSE LET x == I64Add(Head(q)[1], Bias, checks)
             y == I64Add(Head(q)[2], Bias, checks)
         IN  IF ~x.ok \/ ~y.ok THEN [ok |-> FALSE, node |-> node, calls |-> calls]
             ELSE LET coord == <<x.v, y.v>>
                      value == EditValue(node, coord)
                  IN  IF Tail(q) = <<>>
                      THEN [ok |-> TRUE, node |-> modify(node, coord, value, MAX_N),
                            calls |-> Append(calls, coord)]
                      ELSE UpdateLifeLost(Tail(q), node, Append(calls, coord), checks)

RECURSIVE update_life(_, _, _, _)
\* GridView::update_life over the drained entries q, from handle node;
\* calls collects the coordinates passed to HashLife::modify
update_life(q, node, calls, checks) ==
    IF q = <<>> THEN [ok |-> TRUE, node |-> node, calls |-> calls]
    ELSE LET x == I64Add(Head(q)[1], Bias, checks)
             y == I64Add(Head(q)[2], Bias, checks)
         IN  IF ~x.ok \/ ~y.ok THEN [ok |-> FALSE, node |-> node, calls |-> calls]
             ELSE LET coord == <<x.v, y.v>>
                      value == EditValue(node, coord)
                  IN  update_life(Tail(q), modify(node, coord, value, MAX_N),
                                  Append(calls, coord), checks)

\* the rectangle GridView::render_life passes to HashLife::resolve
QueryRect(center, scale, grid_size, view_center, checks) ==
    LET rect == viewbox_grid(center, scale, grid_size)
        l == I64Add(AsI64(FFloor(rect.min.x)), view_center[1], checks)
        t == I64Add(AsI64(FFloor(rect.min.y)), view_center[2], checks)
        r == I64Add(AsI64(FCeil(rect.max.x)), view_center[1], checks)
        b == I64Add(AsI64(FCeil(rect.max.y)), view_center[2], checks)
    IN  IF l.ok /\ t.ok /\ r.ok /\ b.ok
        THEN [ok |-> TRUE, rect |-> <<<<l.v, t.v>>, <<r.v, b.v>>>>]
        ELSE [ok |-> FALSE]

\* the visible set GridView::render_life stores
RenderGrid(min, rect, node) ==
    {Stored(c) : c \in resolve(min, rect, node)}

RECURSIVE YieldAll(_, _, _, _, _)
\* the rectangles GridView::view_rects yields, in iteration order
YieldAll(g, center, scale, view_size_px, cell_scale_grid) ==
    IF g = <<>> THEN <<>>
    ELSE LET r == ViewRect(center, scale, view_size_px, cell_scale_grid, Head(g))
             rest == YieldAll(Tail(g), center, scale, view_size_px, cell_scale_grid)
         IN  IF r.some THEN <<r>> \o rest ELSE rest

\* GridView::view_rects
view_rects(grid, center, scale, view_size_px, checks) ==
    LET sh == ShlI32(min_n(scale), checks)
    IN  IF ~sh.ok THEN [ok |-> FALSE]
        ELSE [ok |-> TRUE,
              tiles |-> YieldAll(SeqOf(grid), center, scale, view_size_px, sh.v)]

RECURSIVE BitLen(_)
\* usize::BITS - n.leading_zeros()
BitLen(n) == IF n = 0 THEN 0 ELSE 1 + BitLen(n \div 2)

\* the "- -" and "++" buttons of MashlifeGui::update
MinusStep(ts) ==
    IF ts = 1 THEN 0
    ELSE 2 ^ (IF BitLen(ts) >= 2 THEN BitLen(ts) - 2 ELSE 0)

PlusStep(ts) == 2 ^ BitLen(ts)

(***************************************************************************)
(* State                                                                   *)
(***************************************************************************)
VARIABLES
    pc,             \* position in MashlifeGui::update, "Api" or "Panicked"
    frame,          \* number of frames started
    checks,         \* the build panics on integer overflow
    time_step,      \* MashlifeGui.time_step
    input,          \* MashlifeGui.input, the working handle
    view_center,    \* MashlifeGui.view_center
    center,         \* GridView.center
    scale,          \* GridView.scale
    grid,           \* GridView.grid, the visible set
    queued_changes, \* GridView.queued_changes
    hover,          \* cursor_relative of GridView::show, when hovering
    requested,      \* history: the intent each pending entry was asked with
    enqueued,       \* history: the coordinates enqueued since the last drain
    log,            \* history: the oracle work and painting of this frame
    painted,        \* history: the tiles painted in this frame
    paintedAge,     \* history: the frame that computed the painted visible set
    gridAge,        \* history: the frame that computed grid
    cullInput,      \* history: the handle grid was computed from
    batch,          \* history: the entries drained by the last update_life
    before,         \* history: the handle the last update_life started from
    calls,          \* history: the coordinates passed to HashLife::modify
    query,          \* history: the rectangle passed to HashLife::resolve
    ops,            \* number of user inputs (Spec) or operations (SpecApi) so far
    probe,          \* SpecLod: a scale (n/d) * 2^e handed to min_n
    depth,          \* SpecLod: the depth min_n returned for probe, or -1
    edge,           \* SpecLod: the macrocell edge view_rects computes for depth
    reported,       \* SpecVisit: the coordinates the oracle reports to the visitor
    button          \* history: the step-count widget used in this frame

view == <<center, scale>>
hist == <<log, painted, paintedAge, gridAge, cullInput, batch, before, calls, query>>
lod == <<probe, depth, edge, reported>>
vars == <<pc, frame, checks, time_step, input, view_center, center, scale, grid,
          queued_changes, hover, requested, enqueued, log, painted, paintedAge,
          gridAge, cullInput, batch, before, calls, query, ops, probe, depth,
          edge, reported, button>>

(***************************************************************************)
(* Inputs of a frame                                                       *)
(***************************************************************************)
\* ui.available_size()
ViewSize == Vec(Whole(80), Whole(40))

\* response.drag_delta(), in pixels
DragDeltas == {Vec(Whole(20), Whole(0)), Vec(Whole(-40), Whole(20))}

\* hover_pos - display_rect.min, in pixels
Cursors == {Vec(Whole(40), Whole(20)), Vec(Whole(10), Whole(35)),
            Vec(Whole(55), Whole(12))}

\* the pointer positions of the operations called in any order
ApiCursors == {Vec(Whole(40), Whole(20)), Vec(Whole(10), Whole(35))}

\* scroll_delta.y * 0.001
Deltas == {Whole(-2), Whole(-1), Fin(-7, 8), Whole(0), Fin(1, 2), Whole(3)}

Intents == {"SetAlive", "SetDead", "Toggle"}

NoHover == [some |-> FALSE]
NoEdge == [ok |-> FALSE, none |-> TRUE]
NoQuery == [ok |-> FALSE]

\* finite view states are kept inside the bounds of the model
FInRange(a, m) == IsFin(a) => (a.n <= m * a.d /\ -a.n <= m * a.d)

InRange(c, sc) ==
    /\ FInRange(c.x, MaxCenter) /\ FInRange(c.y, MaxCenter)
    /\ FInRange(sc, 4 * InitScale)
    /\ (IsFin(sc) /\ sc.n > 0) => MinNScaled(sc.n, sc.d, 0) <= MaxDepth

(***************************************************************************)
(* Initial state: MashlifeGui::default                                     *)
(***************************************************************************)
\* clock.rle, 4 by 4, placed by load_rle around the centre of the universe
Clock == {<<2, 0>>, <<0, 1>>, <<1, 1>>, <<2, 2>>, <<3, 2>>, <<1, 3>>}

\* load_rle with half_width = 1 << n, the shift taken before the subtraction
LoadRleShifted ==
    LET rle_width == 4
        rle_height == 4
        half_width == Wide(2, 0)
        insert_tl == <<-(rle_width \div 2), -(rle_height \div 2)>>
    IN  [input |-> Handle({<<insert_tl[1] + c[1], insert_tl[2] + c[2]>> : c \in Clock},
                          MAX_N),
         half_width |-> half_width,
         view_center |-> <<half_width, half_width>>]

\* load_rle: the clock pattern centred on (half_width, half_width), cells kept
\* relative to that centre
load_rle ==
    LET rle_width == 4
        rle_height == 4
        half_width == Bias
        insert_tl == <<-(rle_width \div 2), -(rle_height \div 2)>>
    IN  [input |-> Handle({<<insert_tl[1] + c[1], insert_tl[2] + c[2]>> : c \in Clock},
                          MAX_N),
         half_width |-> half_width,
         view_center |-> <<half_width, half_width>>]

InitState ==
    /\ frame = 0
    /\ checks \in BOOLEAN
    /\ time_step = InitTimeStep
    /\ input = load_rle.input
    /\ view_center = load_rle.view_center
    /\ center = Vec(Whole(0), Whole(0))
    /\ scale = Whole(InitScale)
    /\ grid = {}
    /\ queued_changes = {}
    /\ hover = NoHover
    /\ requested = << >>
    /\ enqueued = << >>
    /\ log = << >>
    /\ painted = << >>
    /\ paintedAge = 0
    /\ gridAge = 0
    /\ cullInput = load_rle.input
    /\ batch = {}
    /\ before = load_rle.input
    /\ calls = << >>
    /\ query = NoQuery
    /\ ops = 0
    /\ edge = NoEdge
    /\ button = "none"

NoProbe == [n |-> 1, d |-> 1, e |-> 0]

Init ==
    pc = "TimeStep" /\ InitState /\ probe = NoProbe /\ depth = -1 /\ reported = {}

(***************************************************************************)
(* Effects of the GridView operations                                      *)
(***************************************************************************)
\* GridView::drag
drag(delta) ==
    /\ center' = DragCenter(center, scale, delta)
    /\ scale' = scale

\* zoom taking the cursor offset first and updating the scale after it
ZoomOffsetFirst(delta, cursor_px, view_size_px) ==
    /\ center' = VAdd(center,
                      VScale(calc_cursor_grid(scale, cursor_px, view_size_px),
                             delta))
    /\ scale' = ZoomScale(scale, delta)

\* GridView::zoom
zoom(delta, cursor_px, view_size_px) ==
    /\ scale' = ZoomScale(scale, delta)
    /\ center' = ZoomCenter(center, scale, delta, cursor_px, view_size_px)

\* an insert that removes an entry that is already pending
InsertFlip(q, xy) == IF xy \in q THEN q \ {xy} ELSE q \cup {xy}

\* the pending entries after inserting xy
Insert(q, xy) == q \cup {xy}

\* GridView::modify; the queue holds coordinates only, intent is not stored
modify_click(cursor_px, view_size_px, intent) ==
    LET xy == ClickCoord(center, scale, cursor_px, view_size_px)
    IN  /\ queued_changes' = Insert(queued_changes, xy)
        /\ requested' = [c \in Insert(queued_changes, xy) |->
                            IF c = xy THEN intent ELSE requested[c]]
        /\ enqueued' = Append(enqueued, xy)

\* the commit iterating over the queue without draining it
CommitKeepsQueue ==
    LET r == update_life(SeqOf(queued_changes), input, << >>, checks)
    IN  /\ UNCHANGED <<queued_changes, requested, enqueued>>
        /\ batch' = queued_changes
        /\ before' = input
        /\ calls' = r.calls
        /\ input' = r.node
        /\ log' = Append(log, "commit")
        /\ pc' = IF r.ok THEN (IF pc = "Api" THEN "Api" ELSE "RenderLife")
                 ELSE "Panicked"

\* the call of update_life in GridView::show: drain, commit, store the handle
Commit ==
    LET r == update_life(SeqOf(queued_changes), input, << >>, checks)
    IN  /\ queued_changes' = {}
        /\ requested' = << >>
        /\ enqueued' = << >>
        /\ batch' = queued_changes
        /\ before' = input
        /\ calls' = r.calls
        /\ input' = r.node
        /\ log' = Append(log, "commit")
        /\ pc' = IF r.ok THEN (IF pc = "Api" THEN "Api" ELSE "RenderLife")
                 ELSE "Panicked"

\* render_life returning before it clears and refills the visible set
CullStale ==
    LET q == QueryRect(center, scale, ViewSize, view_center, checks)
    IN  /\ query' = q
        /\ grid' = grid
        /\ gridAge' = gridAge
        /\ cullInput' = cullInput
        /\ log' = Append(log, "cull")
        /\ pc' = IF q.ok THEN (IF pc = "Api" THEN "Api" ELSE "TimeStep")
                 ELSE "Panicked"

\* the call of render_life in GridView::show
Cull ==
    LET q == QueryRect(center, scale, ViewSize, view_center, checks)
    IN  /\ query' = q
        /\ grid' = IF q.ok THEN RenderGrid(min_n(scale), q.rect, input) ELSE {}
        /\ gridAge' = frame
        /\ cullInput' = input
        /\ log' = Append(log, "cull")
        /\ pc' = IF q.ok THEN (IF pc = "Api" THEN "Api" ELSE "TimeStep")
                 ELSE "Panicked"

\* the drawing block, with the call of update_life after it left out
DrawSkipsCommit(visible) ==
    LET r == view_rects(grid, center, scale, ViewSize, checks)
    IN  /\ painted' = IF visible /\ r.ok THEN r.tiles ELSE << >>
        /\ paintedAge' = gridAge
        /\ log' = Append(log, IF visible THEN "paint" ELSE "skip")
        /\ pc' = IF visible /\ ~r.ok THEN "Panicked"
                 ELSE IF pc = "Api" THEN "Api" ELSE "RenderLife"

\* the drawing block of GridView::show
Draw(visible) ==
    LET r == view_rects(grid, center, scale, ViewSize, checks)
    IN  /\ painted' = IF visible /\ r.ok THEN r.tiles ELSE << >>
        /\ paintedAge' = gridAge
        /\ log' = Append(log, IF visible THEN "paint" ELSE "skip")
        /\ pc' = IF visible /\ ~r.ok THEN "Panicked"
                 ELSE IF pc = "Api" THEN "Api" ELSE "UpdateLife"

(***************************************************************************)
(* One frame: MashlifeGui::update                                          *)
(***************************************************************************)
\* MashlifeGui::time_step, the first statement of update
TimeStep ==
    /\ pc = "TimeStep"
    /\ UNCHANGED <<lod, button>>
    /\ frame < MaxFrames
    /\ frame' = frame + 1
    /\ input' = Advance(input, time_step)
    /\ log' = <<"step">>
    /\ painted' = << >>
    /\ batch' = {}
    /\ calls' = << >>
    /\ query' = NoQuery
    /\ pc' = "Buttons"
    /\ UNCHANGED <<checks, time_step, view_center, center, scale, grid,
                   queued_changes, hover, requested, enqueued, paintedAge, gridAge,
                   cullInput, before, ops>>

\* the step-count buttons and drag value
Buttons ==
    /\ pc = "Buttons"
    /\ UNCHANGED lod
    /\ \/ UNCHANGED <<time_step, ops, button>>
       \/ /\ ops < MaxInputs
          /\ ops' = ops + 1
          /\ \/ time_step' = MinusStep(time_step) /\ button' = "minus"
             \/ time_step' = PlusStep(time_step) /\ button' = "plus"
             \/ time_step' \in 0..MaxTimeStep /\ button' = "value"
          /\ time_step' <= MaxTimeStep
    /\ pc' = "Drag"
    /\ UNCHANGED <<frame, checks, input, view_center, center, scale, grid,
                   queued_changes, hover, requested, enqueued>>
    /\ UNCHANGED hist

\* GridView::show, dragging
Drag ==
    /\ pc = "Drag"
    /\ UNCHANGED lod
    /\ button' = "none"
    /\ \/ UNCHANGED <<center, scale, ops>>
       \/ /\ ops < MaxInputs
          /\ ops' = ops + 1
          /\ \E d \in DragDeltas : drag(d) /\ InRange(center', scale')
    /\ pc' = "Zoom"
    /\ UNCHANGED <<frame, checks, time_step, input, view_center, grid,
                   queued_changes, hover, requested, enqueued>>
    /\ UNCHANGED hist

\* GridView::show, zooming (only while the pointer hovers the view)
Zoom ==
    /\ pc = "Zoom"
    /\ UNCHANGED <<lod, button>>
    /\ \/ /\ hover' = NoHover
          /\ pc' = "Paint"
          /\ UNCHANGED <<center, scale, ops>>
       \/ \E c \in Cursors, d \in Deltas :
            /\ d # Whole(0) => ops < MaxInputs
            /\ ops' = IF d # Whole(0) THEN ops + 1 ELSE ops
            /\ zoom(d, c, ViewSize)
            /\ InRange(center', scale')
            /\ hover' = [some |-> TRUE, pos |-> c]
            /\ pc' = "Click"
    /\ UNCHANGED <<frame, checks, time_step, input, view_center, grid,
                   queued_changes, requested, enqueued>>
    /\ UNCHANGED hist

\* GridView::show, response.clicked()
Click ==
    /\ pc = "Click"
    /\ UNCHANGED <<lod, button>>
    /\ \/ UNCHANGED <<queued_changes, requested, enqueued, ops>>
       \/ /\ ops < MaxInputs
          /\ ops' = ops + 1
          /\ modify_click(hover.pos, ViewSize, "Toggle")
    /\ hover' = NoHover
    /\ pc' = "Paint"
    /\ UNCHANGED <<frame, checks, time_step, input, view_center, center, scale,
                   grid>>
    /\ UNCHANGED hist

\* GridView::show, drawing
Paint ==
    /\ pc = "Paint"
    /\ UNCHANGED <<lod, button>>
    /\ Draw(TRUE)
    /\ UNCHANGED <<frame, checks, time_step, input, view_center, center, scale,
                   grid, queued_changes, hover, requested, enqueued, gridAge, cullInput,
                   batch, before, calls, query, ops>>

\* GridView::show, *node = self.update_life(life, *node)
UpdateLife ==
    /\ pc = "UpdateLife"
    /\ UNCHANGED <<lod, button>>
    /\ Commit
    /\ UNCHANGED <<frame, checks, time_step, view_center, center, scale, grid,
                   hover, painted, paintedAge, gridAge, cullInput, query, ops>>

\* GridView::show, self.render_life(...)
RenderLife ==
    /\ pc = "RenderLife"
    /\ UNCHANGED <<lod, button>>
    /\ Cull
    /\ UNCHANGED <<frame, checks, time_step, input, view_center, center, scale,
                   queued_changes, hover, requested, enqueued, painted, paintedAge, batch,
                   before, calls, ops>>

Next ==
    \/ TimeStep
    \/ Buttons
    \/ Drag
    \/ Zoom
    \/ Click
    \/ Paint
    \/ UpdateLife
    \/ RenderLife

Spec == Init /\ [][Next]_vars

(***************************************************************************)
(* The visitor of render_life on coordinates anywhere in the universe       *)
(***************************************************************************)
MaxMid == 1

\* absolute coordinates on one axis, up to MaxMid * 2^32 away from 0 and from
\* the origin bias
ReportAxis ==
    {Wide3(hi, mid, lo) : hi \in 0..1, mid \in -MaxMid..MaxMid, lo \in {-2, 3}}

ReportSets == {{a, b} : a, b \in ReportAxis \X ReportAxis}

InitVisit ==
    pc = "Visit" /\ InitState /\ probe = NoProbe /\ depth = -1
    /\ reported \in ReportSets

\* GridView::render_life: the grid is cleared and the visitor inserts every
\* coordinate the oracle reports
Visit ==
    /\ pc = "Visit"
    /\ grid' = {Stored(c) : c \in reported}
    /\ pc' = "Visited"
    /\ UNCHANGED <<frame, checks, time_step, input, view_center, center, scale,
                   queued_changes, hover, requested, enqueued, ops, probe, depth,
                   edge, reported, button>>
    /\ UNCHANGED hist

NextVisit == Visit

SpecVisit == InitVisit /\ [][NextVisit]_vars

(***************************************************************************)
(* The operations of GridView applied in any order                         *)
(***************************************************************************)
InitApi ==
    pc = "Api" /\ InitState /\ probe = NoProbe /\ depth = -1 /\ reported = {}

ApiFrame == <<frame, checks, time_step, view_center, hover, probe, depth, edge,
              reported, button>>

ApiDrag ==
    /\ pc = "Api" /\ ops < MaxOps
    /\ \E d \in DragDeltas : drag(d) /\ InRange(center', scale')
    /\ ops' = ops + 1
    /\ UNCHANGED <<pc, input, grid, queued_changes, requested, enqueued>>
    /\ UNCHANGED hist
    /\ UNCHANGED ApiFrame

ApiZoom ==
    /\ pc = "Api" /\ ops < MaxOps
    /\ \E c \in ApiCursors, d \in Deltas \ {Whole(0)} :
            zoom(d, c, ViewSize) /\ InRange(center', scale')
    /\ ops' = ops + 1
    /\ UNCHANGED <<pc, input, grid, queued_changes, requested, enqueued>>
    /\ UNCHANGED hist
    /\ UNCHANGED ApiFrame

ApiModify ==
    /\ pc = "Api" /\ ops < MaxOps
    /\ \E c \in ApiCursors, i \in Intents : modify_click(c, ViewSize, i)
    /\ ops' = ops + 1
    /\ UNCHANGED <<pc, input, center, scale, grid>>
    /\ UNCHANGED hist
    /\ UNCHANGED ApiFrame

ApiViewRects ==
    /\ pc = "Api" /\ ops < MaxOps
    /\ Draw(TRUE)
    /\ ops' = ops + 1
    /\ UNCHANGED <<input, center, scale, grid, queued_changes, requested,
                   enqueued, gridAge, cullInput, batch, before, calls, query>>
    /\ UNCHANGED ApiFrame

ApiUpdateLife ==
    /\ pc = "Api" /\ ops < MaxOps
    /\ Commit
    /\ ops' = ops + 1
    /\ UNCHANGED <<center, scale, grid, painted, paintedAge, gridAge, cullInput,
                   query>>
    /\ UNCHANGED ApiFrame

ApiRenderLife ==
    /\ pc = "Api" /\ ops < MaxOps
    /\ Cull
    /\ ops' = ops + 1
    /\ UNCHANGED <<input, center, scale, queued_changes, requested, enqueued,
                   painted, paintedAge, batch, before, calls>>
    /\ UNCHANGED ApiFrame

NextApi ==
    \/ ApiDrag
    \/ ApiZoom
    \/ ApiModify
    \/ ApiViewRects
    \/ ApiUpdateLife
    \/ ApiRenderLife

SpecApi == InitApi /\ [][NextApi]_vars

(***************************************************************************)
(* min_n over the whole range of positive f32 scales                       *)
(***************************************************************************)
\* mantissas n/d in [1, 2) and exponents down to the smallest subnormal
ProbeScales ==
    {[n |-> m[1], d |-> m[2], e |-> e] :
        m \in {<<1, 1>>, <<5, 4>>, <<3, 2>>}, e \in -149..8}

InitLod ==
    pc = "Lod" /\ InitState /\ probe \in ProbeScales /\ depth = -1 /\ reported = {}

\* GridView::min_n applied to the probed scale
ApplyMinN ==
    /\ pc = "Lod"
    /\ depth = -1
    /\ depth' = MinNScaled(probe.n, probe.d, probe.e)
    /\ UNCHANGED <<pc, frame, checks, time_step, input, view_center, center,
                   scale, grid, queued_changes, hover, requested, enqueued, ops,
                   probe, edge, reported, button>>
    /\ UNCHANGED hist

\* (1 << self.min_n()) in GridView::view_rects, for the depth min_n returned
ApplyShift ==
    /\ pc = "Lod"
    /\ depth # -1
    /\ edge = NoEdge
    /\ edge' = ShlI32(depth, checks)
    /\ UNCHANGED <<pc, frame, checks, time_step, input, view_center, center,
                   scale, grid, queued_changes, hover, requested, enqueued, ops,
                   probe, depth, reported, button>>
    /\ UNCHANGED hist

NextLod == ApplyMinN \/ ApplyShift

SpecLod == InitLod /\ [][NextLod]_vars

(***************************************************************************)
(* Properties                                                              *)
(***************************************************************************)
FrameOrder == <<"step", "paint", "commit", "cull">>

IsPrefix(a, b) == Len(a) <= Len(b) /\ \A i \in 1..Len(a) : a[i] = b[i]

Before(a, b) ==
    \A i, j \in 1..Len(log) : (log[i] = a /\ log[j] = b) => i < j

\* C1 as stated: in every frame the commit of the pending edits comes before
\* that frame's simulation step.
C1_CommitBeforeStep == Before("commit", "step")

\* C1, amended: in every frame the simulation step comes first, then the
\* painting, then the commit of the pending edits, then the cull; a frame
\* that ends has done all four, so an edit enqueued in frame k is committed
\* in frame k after that frame's step.
C1_StepThenCommit ==
    /\ IsPrefix(log, FrameOrder)
    /\ (pc = "TimeStep" /\ frame > 0) => log = FrameOrder
    /\ pc = "RenderLife" => log = SubSeq(FrameOrder, 1, 3)

C1_Witness ==
    /\ pc = "TimeStep" /\ frame = 2
    /\ log = FrameOrder
    /\ batch # {}

\* C2 as stated: the visible set painted in a frame was computed in that
\* same frame, and the working handle is the one it was computed from.
C2_PaintsOwnCull ==
    pc = "UpdateLife" => (paintedAge = frame /\ cullInput = input)

\* C2, amended: the visible set painted in frame k is the one computed by the
\* cull that ended frame k-1 (the empty initial set in frame 1), every
\* painted tile comes from it, and each frame's cull recomputes the set from
\* the working handle as it stands after that frame's step and commit.
C2_PaintsPreviousCull ==
    /\ pc = "UpdateLife" =>
          /\ paintedAge = frame - 1
          /\ \A i \in 1..Len(painted) : painted[i].xy \in grid
    /\ (pc = "TimeStep" /\ frame > 0) => (gridAge = frame /\ cullInput = input)

C2_Witness ==
    /\ pc = "UpdateLife" /\ frame = 2
    /\ Len(painted) > 0
    /\ cullInput.cells # input.cells

\* the absolute coordinate of a pending entry: both axes plus the origin bias
Biased(c) == <<Wrap64(WAdd(c[1], Bias)), Wrap64(WAdd(c[2], Bias))>>

InUniverse2(coord) == InUniverse(coord[1]) /\ InUniverse(coord[2])

JustCommitted ==
    pc # "Panicked" /\ Len(log) > 0 /\ log[Len(log)] = "commit"

\* C3: after the commit of a batch, the oracle value at every batch
\* coordinate plus the origin bias (inside the universe) is the negation of
\* its value before the commit, and every other cell is as it was.
C3_ToggleCommit ==
    JustCommitted =>
        LET hit == {Rel(Biased(c)) : c \in {b \in batch : InUniverse2(Biased(b))}}
        IN  /\ \A c \in batch : InUniverse2(Biased(c)) =>
                    (read(input, Biased(c)) <=> ~read(before, Biased(c)))
            /\ \A r \in (input.cells \cup before.cells) \ hit :
                    (r \in input.cells <=> r \in before.cells)
            /\ input.n = before.n

C3_Witness ==
    /\ JustCommitted
    /\ Cardinality(batch) = 2
    /\ \E c \in batch : read(before, Biased(c))
    /\ \E c \in batch : ~read(before, Biased(c))

TimesCalled(coord) == Cardinality({i \in 1..Len(calls) : calls[i] = coord})

\* C4: after the commit of a frame the pending queue is empty until the next
\* click, every entry that was pending went to exactly one modify call, and
\* what a frame commits is only what was enqueued since the previous drain.
C4_DrainedOnce ==
    /\ pc \in {"RenderLife", "TimeStep", "Buttons", "Drag", "Zoom", "Click"} =>
            queued_changes = {}
    /\ pc = "RenderLife" =>
            /\ \A c \in batch : TimesCalled(Biased(c)) = 1
            /\ Len(calls) = Cardinality(batch)
    /\ pc = "UpdateLife" =>
            queued_changes = {enqueued[i] : i \in 1..Len(enqueued)}

C4_Witness ==
    /\ pc = "RenderLife" /\ frame = 2
    /\ batch # {}
    /\ Len(calls) = 1
    /\ queued_changes = {}

Times(c, q) == Cardinality({i \in 1..Len(q) : q[i] = c})

\* what a commit writes for an entry that carries an intent
Resolved(intent, node, coord) ==
    CASE intent = "SetAlive" -> TRUE
      [] intent = "SetDead"  -> FALSE
      [] OTHER               -> ~read(node, coord)

Positive(a) == IsFin(a) /\ a.n > 0

\* C6 as stated: scale > 0 in every reachable state.
C6_ScalePositive == Positive(scale)

\* the grid point under cursor pixel cur: center + (cur - size/2) / scale
PixelToGrid(c, sc, cur) == VAdd(c, VDiv(VSub(cur, VScale(ViewSize, Half)), sc))

\* C7: a zoom with |delta| < 1 from a positive scale (so that the new scale
\* lies strictly between 0 and twice the old one) leaves the grid point under
\* the cursor where it was.
C7_ZoomAnchored ==
    [][(/\ pc = "Zoom" /\ pc' = "Click"
        /\ Positive(scale) /\ Positive(scale')
        /\ FLt(scale', FMul(Whole(2), scale)))
       => PixelToGrid(center', scale', hover'.pos)
            = PixelToGrid(center, scale, hover'.pos)]_vars

C7_Witness ==
    /\ pc = "Click"
    /\ hover.pos = Vec(Whole(10), Whole(35))
    /\ scale = Whole(30)
    /\ center = Vec(Fin(-1, 2), Fin(1, 4))

\* C8 as stated: every coordinate passed to the oracle, by a modify call or
\* as a corner of the resolve rectangle, lies in [0, 2^MAX_N) on each axis.
C8_InsideUniverse ==
    /\ \A i \in 1..Len(calls) : InUniverse2(calls[i])
    /\ query.ok => (InUniverse2(query.rect[1]) /\ InUniverse2(query.rect[2]))

\* a rectangle as a set of points: not empty, no NaN
WellFormed(r) == FLe(r.min.x, r.max.x) /\ FLe(r.min.y, r.max.y)

FMax(a, b) == IF FLe(a, b) THEN b ELSE a
FMin(a, b) == IF FLe(a, b) THEN a ELSE b

\* the two rectangles have a point in common
Overlap(a, b) ==
    /\ WellFormed(a) /\ WellFormed(b)
    /\ FLe(FMax(a.min.x, b.min.x), FMin(a.max.x, b.max.x))
    /\ FLe(FMax(a.min.y, b.min.y), FMin(a.max.y, b.max.y))

\* the macrocell of a visible-set entry: centred on it, side 2^depth
Macrocell(xy, d) ==
    FromCenterSize(Vec(Whole(xy[1]), Whole(xy[2])), Vec(Whole(2 ^ d), Whole(2 ^ d)))

TimesYielded(xy) == Cardinality({i \in 1..Len(painted) : painted[i].xy = xy})

\* C9 as stated: view_rects yields a rectangle exactly once for every
\* visible-set coordinate whose macrocell has a point in common with the
\* viewport rectangle in grid space, and none for any other.
C9_CullingCorrect ==
    pc = "UpdateLife" =>
        LET viewport == viewbox_grid(center, scale, ViewSize)
        IN  /\ \A i \in 1..Len(painted) : painted[i].xy \in grid
            /\ \A xy \in grid :
                 TimesYielded(xy) =
                    IF WellFormed(viewport)
                       /\ Overlap(viewport, Macrocell(xy, min_n(scale)))
                    THEN 1 ELSE 0

Max0(i) == IF i < 0 THEN 0 ELSE i

\* C10 as stated: for every scale > 0, min_n is max(0, floor(log2(1/scale))).
C10_DepthFormula ==
    depth # -1 => depth = Max0(FloorLog2(probe.d, probe.n) - probe.e)


\* p < q for two scales (n/d) * 2^e with mantissa n/d in [1, 2)
ScaleLt(p, q) == p.e < q.e \/ (p.e = q.e /\ p.n * q.d < q.n * p.d)

\* C11: LOD monotonicity. For the positive scale min_n was applied to and any
\* other positive scale, the smaller of the two scales never gets the smaller
\* depth: scale1 < scale2 implies min_n(scale1) >= min_n(scale2).
C11_LodMonotone ==
    depth # -1 =>
        \A q \in ProbeScales :
            /\ ScaleLt(q, probe) => MinNScaled(q.n, q.d, q.e) >= depth
            /\ ScaleLt(probe, q) => depth >= MinNScaled(q.n, q.d, q.e)

\* min_n has answered 3 for the scale 3/32, and the scales around it get
\* strictly more (1/16) and strictly less (1/4)
C11_Witness ==
    /\ depth = 3
    /\ probe = [n |-> 3, d |-> 2, e |-> -4]
    /\ MinNScaled(1, 1, -4) = 4
    /\ MinNScaled(1, 1, -2) = 2


\* the query corner render_life derives from a viewbox corner on one axis
BiasedCorner(a) == Wrap64(WAdd(AsI64(a), Bias))

\* C12: the origin bias is one value, 2^(N-1) = 2^61, for the whole session:
\* the offset update_life adds to every committed coordinate, the view_center
\* render_life adds to the viewport rectangle and the half_width load_rle
\* centred the pattern on are all equal to it, and view_center never changes.
C12_BiasFixed ==
    /\ [](/\ Bias = Wide(1, 0)
          /\ load_rle.half_width = Bias
          /\ view_center = <<Bias, Bias>>
          /\ JustCommitted =>
                {calls[i] : i \in 1..Len(calls)} = {Biased(c) : c \in batch}
          /\ (pc = "TimeStep" /\ query.ok) =>
                LET rect == viewbox_grid(center, scale, ViewSize)
                IN  query.rect =
                        <<<<BiasedCorner(FFloor(rect.min.x)),
                            BiasedCorner(FFloor(rect.min.y))>>,
                          <<BiasedCorner(FCeil(rect.max.x)),
                            BiasedCorner(FCeil(rect.max.y))>>>>)
    /\ [][view_center' = view_center]_vars

\* the second frame has committed a click and queried the window after a
\* drag and a zoom moved the view
C12_Witness ==
    /\ pc = "TimeStep" /\ frame = 2
    /\ batch # {} /\ Len(calls) = 1
    /\ query.ok
    /\ center # Vec(Whole(0), Whole(0)) /\ scale # Whole(InitScale)


\* C13: a drag by delta pixels moves center to center - delta / scale and
\* leaves scale, the pending queue and the visible set as they were; from
\* center (0, 0) at scale 20 the drag by (20, 0) ends at center (-1, 0).
C13_DragEffect ==
    [][pc = "Drag" =>
        /\ scale' = scale /\ queued_changes' = queued_changes /\ grid' = grid
        /\ ops' = ops => center' = center
        /\ ops' # ops =>
              \E d \in DragDeltas :
                 center' = Vec(FSub(center.x, FDiv(d.x, scale)),
                               FSub(center.y, FDiv(d.y, scale)))
        /\ (/\ ops' # ops /\ scale = Whole(20)
            /\ center = Vec(Whole(0), Whole(0))
            /\ center'.y = Whole(0)) => center' = Vec(Whole(-1), Whole(0))]_vars

\* the first frame has dragged by (20, 0) from the initial view
C13_Witness ==
    /\ pc = "Zoom" /\ frame = 1 /\ ops = 1
    /\ scale = Whole(20)
    /\ center = Vec(Whole(-1), Whole(0))


\* (c - s/2) / sc, the cursor offset from the view centre in grid units
CursorOffset(cur, sc) == VDiv(VSub(cur, VScale(ViewSize, Half)), sc)

\* C14 as stated: a zoom by delta at cursor c leaves scale = scale0 +
\* delta * scale0 and center = center0 + ((c - s/2) / scale0) * delta, the
\* offset being divided by the scale as it was before the update.
C14_OffsetAtOldScale ==
    [][(pc = "Zoom" /\ pc' = "Click") =>
        \E d \in Deltas :
            /\ scale' = FAdd(scale, FMul(d, scale))
            /\ center' = VAdd(center, VScale(CursorOffset(hover'.pos, scale), d))
      ]_vars

\* C14, amended: a zoom by delta at cursor c leaves scale = scale0 +
\* delta * scale0 and center = center0 + ((c - s/2) / scale) * delta, the
\* offset being divided by the scale after the update.
C14_OffsetAtNewScale ==
    [][(pc = "Zoom" /\ pc' = "Click") =>
        \E d \in Deltas :
            /\ scale' = FAdd(scale, FMul(d, scale))
            /\ center' = VAdd(center, VScale(CursorOffset(hover'.pos, scale'), d))
      ]_vars

\* the first frame has zoomed by -7/8 with the cursor off the view centre:
\* the offset (-30, 15) px is (-12, 6) at the new scale 5/2
C14_Witness ==
    /\ pc = "Click" /\ frame = 1
    /\ hover.pos = Vec(Whole(10), Whole(35))
    /\ scale = Fin(5, 2)
    /\ center = Vec(Fin(21, 2), Fin(-21, 4))


C16_QueryWellFormed ==
    query.ok =>
        /\ WLe(query.rect[1][1], query.rect[2][1])
        /\ WLe(query.rect[1][2], query.rect[2][2])


\* C17 as stated: for every depth d that min_n returns for a positive scale,
\* the shift 1 << d of view_rects completes without overflow and the macrocell
\* edge it yields is 2^d, strictly positive. (The shift is evaluated in i32,
\* which holds no power of two above 2^30.)
C17_EdgeIsPowerOfTwo ==
    edge # NoEdge =>
        /\ edge.ok
        /\ Positive(edge.v)
        /\ depth <= 30
        /\ edge.v = Whole(2 ^ depth)


\* p lies strictly inside the screen rectangle r
StrictlyInside(p, r) ==
    /\ FLt(r.min.x, p.x) /\ FLt(p.x, r.max.x)
    /\ FLt(r.min.y, p.y) /\ FLt(p.y, r.max.y)

\* the integers within two cells of the coordinate a (no cell farther away
\* than that has a depth-0 rectangle reaching the pixel that maps to a)
Around(a) == IF IsFin(a) THEN (FFloor(a).n - 2)..(FFloor(a).n + 2) ELSE {}

NearBias(a) == a.hi = 1 /\ a.mid = 0

\* a and b differ by a multiple of 2^32
Congruent32(a, b) == a.lo = b.lo

\* C19: the visitor stores each reported 64-bit coordinate truncated to 32
\* bits: a coordinate within 2^31 of the origin bias on both axes is stored
\* as its offset from the bias, and two distinct coordinates that differ by a
\* multiple of 2^32 on both axes are stored as one visible-set entry.
C19_VisitorTruncates ==
    pc = "Visited" =>
        /\ \A a \in reported :
              (NearBias(a[1]) /\ NearBias(a[2])) =>
                  /\ Stored(a) = <<a[1].lo, a[2].lo>>
                  /\ <<a[1].lo, a[2].lo>> \in grid
        /\ \A a, b \in reported :
              (a # b /\ Congruent32(a[1], b[1]) /\ Congruent32(a[2], b[2])) =>
                  /\ Stored(a) = Stored(b)
                  /\ Cardinality(grid) = 1
        /\ \A g \in grid : \E a \in reported : g = Stored(a)

\* the oracle has reported the cell (3, -2) and a cell 2^32 to its right and
\* 2^32 above it; the visible set holds the single entry (3, -2)
C19_Witness ==
    /\ pc = "Visited"
    /\ reported = {<<Wide3(1, 0, 3), Wide3(1, 0, -2)>>,
                   <<Wide3(1, 1, 3), Wide3(1, -1, -2)>>}
    /\ grid = {<<3, -2>>}


\* C20 as stated: pressing "- -" never increases the step count and takes 1
\* to 0; pressing "++" yields 1 << bit-length of the step count, a strictly
\* larger power of two.
C20_ButtonsMonotone ==
    [][/\ (pc = "Buttons" /\ button' = "minus") =>
            /\ time_step' <= time_step
            /\ time_step = 1 => time_step' = 0
       /\ (pc = "Buttons" /\ button' = "plus") =>
            /\ time_step' > time_step
            /\ time_step' = 2 ^ BitLen(time_step)
      ]_vars

====
